---- MODULE Spec2Model ----
(***************************************************************************)
(* Model of the smolib authentication proxy (src/main.py): start-up        *)
(* configuration, the per-request provider client, the five request        *)
(* handlers, the response normalizer and the error mapper.                 *)
(*                                                                         *)
(* Python strings are sequences of one-character strings.  An optional     *)
(* value (str | None, Session | None, ...) is None or Some(v).             *)
(***************************************************************************)
EXTENDS Integers, Sequences, FiniteSets, TLC

VARIABLES
    phase,          \* "starting" | "serving" | "failed": position of lifespan()
    env,            \* the process environment read by os.getenv
    app_state,      \* app.state.supabase_url / app.state.supabase_key
    pc,             \* position of the request being handled
    req,            \* the inbound request: operation, body, Authorization header
    client,         \* the ASupabaseAuthClient of this request
    calls,          \* provider operations issued by this request, in order
    result,         \* what the provider answered to the last operation
    response,       \* the transport response of this request
    served          \* number of requests completed so far

vars == <<phase, env, app_state, pc, req, client, calls, result, response, served>>

(***************************************************************************)
(* Bounds of the model.                                                    *)
(***************************************************************************)
MaxTail == 3            \* characters following the scheme word in a header
MaxPasswordLen == 9     \* longest password tried
MaxRefreshLen == 2      \* longest refresh token tried
MaxSlashes == 2         \* trailing "/" characters on SUPABASE_URL
MaxRequests == 2        \* requests served in one run

(***************************************************************************)
(* Program constants.                                                      *)
(***************************************************************************)
HTTP_200_OK == 200
HTTP_204_NO_CONTENT == 204
HTTP_400_BAD_REQUEST == 400
HTTP_401_UNAUTHORIZED == 401
HTTP_422_UNPROCESSABLE == 422
PasswordMinLength == 8
RefreshTokenMinLength == 1

(***************************************************************************)
(* Optional values and Python truthiness of str | None.                    *)
(***************************************************************************)
None == [some |-> FALSE]
Some(v) == [some |-> TRUE, v |-> v]
IsNone(o) == ~o.some

\* `if x:` for x : str | None -- None and "" are falsy.
Truthy(o) == o.some /\ Len(o.v) > 0

(***************************************************************************)
(* String operations used by the program.                                  *)
(***************************************************************************)
\* str.lower() on the letters that occur in the model's headers.
LowerChar(c) ==
    CASE c = "B" -> "b"
      [] c = "E" -> "e"
      [] c = "A" -> "a"
      [] c = "R" -> "r"
      [] c = "S" -> "s"
      [] c = "I" -> "i"
      [] c = "C" -> "c"
      [] OTHER -> c

lower(s) == [i \in 1..Len(s) |-> LowerChar(s[i])]

\* The characters str.strip() removes (space and tab stand for all whitespace).
Whitespace == {" ", "\t"}

RECURSIVE lstrip(_)
lstrip(s) ==
    IF s # <<>> /\ Head(s) \in Whitespace THEN lstrip(Tail(s)) ELSE s

RECURSIVE rstrip_ws(_)
rstrip_ws(s) ==
    IF s # <<>> /\ s[Len(s)] \in Whitespace
    THEN rstrip_ws(SubSeq(s, 1, Len(s) - 1))
    ELSE s

strip(s) == rstrip_ws(lstrip(s))

\* str.rstrip(ch): every trailing occurrence of ch is removed.
RECURSIVE rstrip(_, _)
rstrip(s, ch) ==
    IF s # <<>> /\ s[Len(s)] = ch
    THEN rstrip(SubSeq(s, 1, Len(s) - 1), ch)
    ELSE s

\* str.partition(sep) for a one-character sep: <<before, sep, after>> at the
\* first occurrence, <<s, "", "">> when sep does not occur.
partition(s, sep) ==
    LET hits == {i \in 1..Len(s) : s[i] = sep}
    IN  IF hits = {}
        THEN <<s, <<>>, <<>>>>
        ELSE LET i == CHOOSE j \in hits : \A k \in hits : j <= k
             IN  <<SubSeq(s, 1, i - 1), <<sep>>, SubSeq(s, i + 1, Len(s))>>

SeqsUpTo(S, n) == UNION {[1..k -> S] : k \in 0..n}

(***************************************************************************)
(* Configuration resolver.                                                 *)
(***************************************************************************)
SUPABASE_KEY_ENV_NAMES == <<"SUPABASE_ANON_KEY", "SUPABASE_KEY", "SUPABASE_SERVICE_ROLE_KEY">>

\* The first candidate whose value is truthy, else None.
RECURSIVE first_key(_, _)
first_key(e, i) ==
    IF i > Len(SUPABASE_KEY_ENV_NAMES) THEN None
    ELSE IF Truthy(e[SUPABASE_KEY_ENV_NAMES[i]]) THEN e[SUPABASE_KEY_ENV_NAMES[i]]
    ELSE first_key(e, i + 1)

read_supabase_key(e) == first_key(e, 1)

\* The test of lifespan() that raises RuntimeError.
config_missing(supabase_url, supabase_key) ==
    ~Truthy(supabase_url) \/ ~Truthy(supabase_key)

\* What lifespan() stores before it yields.
stored_config(supabase_url, supabase_key) ==
    [supabase_url |-> rstrip(supabase_url.v, "/"),
     supabase_key |-> supabase_key.v]

Unset == [supabase_url |-> <<>>, supabase_key |-> <<>>]

\* Environments: SUPABASE_URL absent, or a host part ("" or "h") followed by
\* up to MaxSlashes "/"; each key variable absent, empty or set.
UrlValues ==
    {None} \cup
    {Some(h \o [i \in 1..n |-> "/"]) : h \in {<<>>, <<"h">>}, n \in 0..MaxSlashes}

KeyValues(c) == {None, Some(<<>>), Some(<<c>>)}

AllEnvs ==
    {[SUPABASE_URL |-> u, SUPABASE_ANON_KEY |-> a, SUPABASE_KEY |-> k,
      SUPABASE_SERVICE_ROLE_KEY |-> s] :
        u \in UrlValues, a \in KeyValues("a"), k \in KeyValues("k"),
        s \in KeyValues("s")}

\* The environments the request pipeline is explored under.
PipelineEnvs ==
    {e \in AllEnvs :
        /\ e.SUPABASE_URL \in {None, Some(<<"h">>), Some(<<"h", "/">>)}
        /\ e.SUPABASE_ANON_KEY = None
        /\ e.SUPABASE_KEY \in {Some(<<>>), Some(<<"k">>)}
        /\ e.SUPABASE_SERVICE_ROLE_KEY \in {None, Some(<<"s">>)}}

(***************************************************************************)
(* Provider client factory.                                                *)
(***************************************************************************)
AuthPath == <<"/", "a", "u", "t", "h", "/", "v", "1">>
BearerPrefix == <<"B", "e", "a", "r", "e", "r", " ">>

NoClient == [id |-> 0, state |-> "none", closes |-> 0]

build_auth_client(state, id) ==
    [id |-> id,
     state |-> "open",
     closes |-> 0,
     url |-> state.supabase_url \o AuthPath,
     headers |-> [apiKey |-> state.supabase_key,
                  Authorization |-> BearerPrefix \o state.supabase_key],
     auto_refresh_token |-> FALSE,
     persist_session |-> FALSE]

\* auth_client.close()
close(c) == [c EXCEPT !.state = "closed", !.closes = @ + 1]

(***************************************************************************)
(* Bearer-token extraction.  The result is the returned token, or the      *)
(* HTTPException raised.                                                   *)
(***************************************************************************)
HTTPException(status_code, detail) ==
    [raised |-> TRUE, status_code |-> status_code, detail |-> detail]

Returned(v) == [raised |-> FALSE, value |-> v]

\* Mutant: the scheme word is not compared.
read_bearer_token_any_scheme(authorization) ==
    IF ~Truthy(authorization)
    THEN HTTPException(HTTP_401_UNAUTHORIZED, "Missing Authorization header.")
    ELSE LET token == partition(authorization.v, " ")[3]
         IN  IF token = <<>>
             THEN HTTPException(HTTP_401_UNAUTHORIZED,
                                "Authorization header must be: Bearer <token>.")
             ELSE Returned(strip(token))

read_bearer_token(authorization) ==
    IF ~Truthy(authorization)
    THEN HTTPException(HTTP_401_UNAUTHORIZED, "Missing Authorization header.")
    ELSE LET parts == partition(authorization.v, " ")
             scheme == parts[1]
             token == parts[3]
         IN  IF lower(scheme) # <<"b", "e", "a", "r", "e", "r">> \/ token = <<>>
             THEN HTTPException(HTTP_401_UNAUTHORIZED,
                                "Authorization header must be: Bearer <token>.")
             ELSE Returned(strip(token))

\* Authorization headers: absent, or a scheme word followed by up to MaxTail
\* characters drawn from space, tab and a token character.
SchemeWords ==
    {<<>>,
     <<"B", "e", "a", "r", "e", "r">>,
     <<"b", "E", "A", "R", "E", "R">>,
     <<"B", "a", "s", "i", "c">>}

Authorizations ==
    {None} \cup {Some(w \o t) : w \in SchemeWords, t \in SeqsUpTo({" ", "\t", "x"}, MaxTail)}

(***************************************************************************)
(* Request bodies and their validation (the pydantic models).  A body      *)
(* field that the client left out is None.                                 *)
(***************************************************************************)
Scopes == {"global", "local", "others"}

Rejected == [valid |-> FALSE]
Validated(m) == [valid |-> TRUE, model |-> m]

\* Mutant: the password field has no min_length.
SignUpPayload_no_min_length(body) ==
    IF body.email.some /\ body.password.some
    THEN Validated([email |-> body.email.v, password |-> body.password.v,
                    metadata |-> body.metadata])
    ELSE Rejected

SignUpPayload(body) ==
    IF /\ body.email.some
       /\ body.password.some
       /\ Len(body.password.v) >= PasswordMinLength
    THEN Validated([email |-> body.email.v, password |-> body.password.v,
                    metadata |-> body.metadata])
    ELSE Rejected

SignInPayload(body) ==
    IF body.email.some /\ body.password.some
    THEN Validated([email |-> body.email.v, password |-> body.password.v])
    ELSE Rejected

RefreshPayload(body) ==
    IF body.refresh_token.some /\ Len(body.refresh_token.v) >= RefreshTokenMinLength
    THEN Validated([refresh_token |-> body.refresh_token.v])
    ELSE Rejected

\* payload: SignOutPayload | None = None -- no body gives None; a body
\* without the field takes the field's default.
SignOutPayload(body) ==
    IF IsNone(body) THEN Validated(None)
    ELSE LET scope == IF body.v.scope.some THEN body.v.scope.v ELSE "global"
         IN  IF scope \in Scopes THEN Validated(Some([scope |-> scope]))
             ELSE Rejected

Emails == {None, Some("a@b.com")}
Passwords == {None} \cup {Some([i \in 1..n |-> "p"]) : n \in 0..MaxPasswordLen}
RefreshTokens == {None} \cup {Some([i \in 1..n |-> "r"]) : n \in 0..MaxRefreshLen}
Metadatas == {None, Some("profile")}
ScopeInputs == {None} \cup {Some(s) : s \in Scopes \cup {"everywhere"}}
SignOutBodies == {None} \cup {Some([scope |-> s]) : s \in ScopeInputs}

Requests ==
    {[op |-> "sign_up", body |-> [email |-> e, password |-> p, metadata |-> m],
      authorization |-> None] : e \in Emails, p \in Passwords, m \in Metadatas}
    \cup
    {[op |-> "sign_in", body |-> [email |-> e, password |-> p],
      authorization |-> None] : e \in Emails, p \in Passwords}
    \cup
    {[op |-> "refresh", body |-> [refresh_token |-> t],
      authorization |-> None] : t \in RefreshTokens}
    \cup
    {[op |-> "me", body |-> None, authorization |-> a] : a \in Authorizations}
    \cup
    {[op |-> "sign_out", body |-> b, authorization |-> a] :
        b \in SignOutBodies, a \in Authorizations}

\* Validation of the request body by the framework before the handler runs.
validate_body(r) ==
    CASE r.op = "sign_up" -> SignUpPayload(r.body)
      [] r.op = "sign_in" -> SignInPayload(r.body)
      [] r.op = "refresh" -> RefreshPayload(r.body)
      [] r.op = "sign_out" -> SignOutPayload(r.body)
      [] OTHER -> Validated(None)

(***************************************************************************)
(* Provider objects.  A pydantic object is a function from its field names *)
(* to tagged values; model_dump(mode="json") turns a datetime into its ISO *)
(* text and keeps every other value.                                       *)
(***************************************************************************)
StrValue(s) == [t |-> "str", s |-> s]
IntValue(n) == [t |-> "int", n |-> n]
NullValue == [t |-> "null"]
DatetimeValue(iso) == [t |-> "datetime", iso |-> iso]
ObjectValue(name) == [t |-> "object", name |-> name]

to_jsonable(v) == IF v.t = "datetime" THEN StrValue(v.iso) ELSE v

model_dump(obj) == [f \in DOMAIN obj |-> to_jsonable(obj[f])]

model_dump_include(obj, include) ==
    [f \in (DOMAIN obj) \cap include |-> to_jsonable(obj[f])]

Users ==
    {[id |-> StrValue("u1"), email |-> StrValue("a@b.com"),
      created_at |-> DatetimeValue("2024-01-01T00:00:00Z"), phone |-> NullValue]}

Sessions ==
    {[provider_token |-> NullValue, provider_refresh_token |-> NullValue,
      access_token |-> StrValue("at1"), refresh_token |-> StrValue("rt1"),
      expires_in |-> IntValue(3600), expires_at |-> NullValue,
      token_type |-> StrValue("bearer"), user |-> ObjectValue("u1")],
     [provider_token |-> StrValue("pt2"), provider_refresh_token |-> StrValue("prt2"),
      access_token |-> StrValue("at2"), refresh_token |-> StrValue("rt2"),
      expires_in |-> IntValue(60), expires_at |-> IntValue(1700000000),
      token_type |-> StrValue("bearer"), user |-> ObjectValue("u1")]}

Optional(S) == {None} \cup {Some(x) : x \in S}

AuthResponses == {[user |-> u, session |-> s] : u \in Optional(Users), s \in Optional(Sessions)}

UserResponses == Optional({[user |-> u] : u \in Optional(Users)})

\* AuthError and its subclasses: message is the attribute, str the value of
\* str(error); only AuthApiError and CustomAuthError carry a status.
AuthErrors ==
    {[variant |-> "AuthApiError", status |-> st, message |-> m, str |-> m] :
        st \in {400, 401, 422},
        m \in {"Invalid login credentials", "User already registered"}}
    \cup
    {[variant |-> "CustomAuthError", status |-> 422, message |-> "Weak password",
      str |-> "Weak password"],
     [variant |-> "AuthError", message |-> "Server error", str |-> "Server error"],
     [variant |-> "AuthRetryableError", message |-> "timed out",
      str |-> "ReadTimeout: timed out"]}

Raise(e) == [kind |-> "raise", error |-> e]
Return(v) == [kind |-> "return", value |-> v]
NoResult == [kind |-> "none"]

\* What the provider may answer to each operation.
Outcomes(op) ==
    {Raise(e) : e \in AuthErrors} \cup
    (CASE op = "get_user" -> {Return(r) : r \in UserResponses}
       [] op = "sign_out" -> {Return(None)}
       [] OTHER -> {Return(r) : r \in AuthResponses})

(***************************************************************************)
(* Response normalizer.                                                    *)
(***************************************************************************)
SessionView == {"access_token", "refresh_token", "expires_in", "expires_at", "token_type"}

\* Mutant: the session is dumped without the include set.
serialize_session_unfiltered(session) ==
    IF IsNone(session) THEN None ELSE Some(model_dump(session.v))

serialize_session(session) ==
    IF IsNone(session) THEN None
    ELSE Some(model_dump_include(session.v, SessionView))

serialize_user(user) ==
    IF IsNone(user) THEN None ELSE Some(model_dump(user.v))

serialize_auth_response(r) ==
    [user |-> serialize_user(r.user), session |-> serialize_session(r.session)]

(***************************************************************************)
(* Error mapper.                                                           *)
(***************************************************************************)
\* Mutant: any error that carries a status keeps it.
map_auth_error_by_status_attr(error) ==
    IF "status" \in DOMAIN error
    THEN HTTPException(error.status, error.message)
    ELSE HTTPException(HTTP_400_BAD_REQUEST, error.str)

map_auth_error(error) ==
    IF error.variant = "AuthApiError"
    THEN HTTPException(error.status, error.message)
    ELSE HTTPException(HTTP_400_BAD_REQUEST, error.str)

(***************************************************************************)
(* Start-up.                                                               *)
(***************************************************************************)
NoRequest == [op |-> "none", body |-> None, authorization |-> None]
NoResponse == [status |-> 0]
Cancelled == [status |-> 0, cancelled |-> TRUE]

Failure(exc) == [status |-> exc.status_code, detail |-> exc.detail]
Success(status, body) == [status |-> status, body |-> body]

InitWith(envs) ==
    /\ phase = "starting"
    /\ env \in envs
    /\ app_state = Unset
    /\ pc = "idle"
    /\ req = NoRequest
    /\ client = NoClient
    /\ calls = <<>>
    /\ result = NoResult
    /\ response = NoResponse
    /\ served = 0

Init == InitWith(PipelineEnvs)

InitStartup == InitWith(AllEnvs)

\* lifespan(): raise RuntimeError, or store the configuration and yield.
lifespan ==
    /\ phase = "starting"
    /\ LET supabase_url == env.SUPABASE_URL
           supabase_key == read_supabase_key(env)
       IN  \/ /\ config_missing(supabase_url, supabase_key)
              /\ phase' = "failed"
              /\ UNCHANGED app_state
           \/ /\ ~config_missing(supabase_url, supabase_key)
              /\ app_state' = stored_config(supabase_url, supabase_key)
              /\ phase' = "serving"
    /\ UNCHANGED <<env, pc, req, client, calls, result, response, served>>

(***************************************************************************)
(* The request pipeline.  pc: "idle" -> "acquired" -> "handler" ->         *)
(* "awaiting" -> "unwind" -> "done" -> "idle".                             *)
(***************************************************************************)
\* get_auth_client up to its yield: a request arrives and its client is built.
get_auth_client ==
    /\ phase = "serving"
    /\ pc = "idle"
    /\ served < MaxRequests
    /\ \E r \in Requests : req' = r
    /\ client' = build_auth_client(app_state, served + 1)
    /\ calls' = <<>>
    /\ result' = NoResult
    /\ response' = NoResponse
    /\ pc' = "acquired"
    /\ UNCHANGED <<phase, env, app_state, served>>

\* The framework validates the body against the handler's payload model and
\* answers 422 without running the handler when it does not fit.
validate_request ==
    /\ pc = "acquired"
    /\ IF validate_body(req).valid
       THEN pc' = "handler" /\ UNCHANGED response
       ELSE /\ pc' = "unwind"
            /\ response' = Failure(HTTPException(HTTP_422_UNPROCESSABLE, "validation error"))
    /\ UNCHANGED <<phase, env, app_state, req, client, calls, result, served>>

\* `await auth_client.<op>(args)`: the operation is issued and the handler
\* suspends until the provider answers.
Issue(op, args) ==
    /\ calls' = Append(calls, [op |-> op, args |-> args, client |-> client.id,
                               client_state |-> client.state])
    /\ pc' = "awaiting"
    /\ UNCHANGED <<result, response>>

\* A local HTTPException ends the handler before any provider operation.
RaiseLocal(exc) ==
    /\ response' = Failure(exc)
    /\ pc' = "unwind"
    /\ UNCHANGED <<calls, result>>

\* The provider answers o and the handler finishes with response r.
Finish(o, r) ==
    /\ result' = o
    /\ response' = r
    /\ pc' = "unwind"
    /\ UNCHANGED calls

\* The tail shared by sign_up, sign_in and refresh.
auth_response_or_error(o) ==
    IF o.kind = "raise"
    THEN Failure(map_auth_error(o.error))
    ELSE Success(HTTP_200_OK, serialize_auth_response(o.value))

sign_up ==
    /\ req.op = "sign_up"
    /\ \/ /\ pc = "handler"
          /\ LET payload == validate_body(req).model
                 credentials ==
                     IF payload.metadata.some
                     THEN [email |-> payload.email, password |-> payload.password,
                           options |-> [data |-> payload.metadata.v]]
                     ELSE [email |-> payload.email, password |-> payload.password]
             IN  Issue("sign_up", credentials)
       \/ /\ pc = "awaiting"
          /\ \E o \in Outcomes("sign_up") : Finish(o, auth_response_or_error(o))
    /\ UNCHANGED <<phase, env, app_state, req, client, served>>

\* Mutant: a failed sign-in is attempted a second time.
sign_in_with_retry ==
    /\ req.op = "sign_in"
    /\ \/ /\ pc = "handler"
          /\ LET payload == validate_body(req).model
             IN  Issue("sign_in_with_password",
                       [email |-> payload.email, password |-> payload.password])
       \/ /\ pc = "awaiting"
          /\ \E o \in Outcomes("sign_in_with_password") :
                IF o.kind = "raise" /\ Len(calls) < 2
                THEN Issue("sign_in_with_password", calls[1].args)
                ELSE Finish(o, auth_response_or_error(o))
    /\ UNCHANGED <<phase, env, app_state, req, client, served>>

sign_in ==
    /\ req.op = "sign_in"
    /\ \/ /\ pc = "handler"
          /\ LET payload == validate_body(req).model
             IN  Issue("sign_in_with_password",
                       [email |-> payload.email, password |-> payload.password])
       \/ /\ pc = "awaiting"
          /\ \E o \in Outcomes("sign_in_with_password") :
                Finish(o, auth_response_or_error(o))
    /\ UNCHANGED <<phase, env, app_state, req, client, served>>

refresh ==
    /\ req.op = "refresh"
    /\ \/ /\ pc = "handler"
          /\ LET payload == validate_body(req).model
             IN  Issue("refresh_session", [refresh_token |-> payload.refresh_token])
       \/ /\ pc = "awaiting"
          /\ \E o \in Outcomes("refresh_session") :
                Finish(o, auth_response_or_error(o))
    /\ UNCHANGED <<phase, env, app_state, req, client, served>>

\* Mutant: only the response itself is tested.
no_user_response_only(user_response) == IsNone(user_response)

\* `not user_response or not user_response.user`
no_user(user_response) ==
    IsNone(user_response) \/ IsNone(user_response.v.user)

me_response(o) ==
    IF o.kind = "raise"
    THEN Failure(map_auth_error(o.error))
    ELSE IF no_user(o.value)
    THEN Failure(HTTPException(HTTP_401_UNAUTHORIZED, "Invalid or expired access token."))
    ELSE Success(HTTP_200_OK, [user |-> serialize_user(o.value.v.user)])

me ==
    /\ req.op = "me"
    /\ \/ /\ pc = "handler"
          /\ LET access_token == read_bearer_token(req.authorization)
             IN  IF access_token.raised
                 THEN RaiseLocal(access_token)
                 ELSE Issue("get_user", [jwt |-> access_token.value])
       \/ /\ pc = "awaiting"
          /\ \E o \in Outcomes("get_user") : Finish(o, me_response(o))
    /\ UNCHANGED <<phase, env, app_state, req, client, served>>

\* Mutant: the payload's scope is not read.
sign_out_scope_ignores_payload(payload) == "global"

\* `payload.scope if payload else "global"`
sign_out_scope(payload) ==
    IF payload.some THEN payload.v.scope ELSE "global"

sign_out_response(o) ==
    IF o.kind = "raise"
    THEN Failure(map_auth_error(o.error))
    ELSE Success(HTTP_204_NO_CONTENT, None)

sign_out ==
    /\ req.op = "sign_out"
    /\ \/ /\ pc = "handler"
          /\ LET access_token == read_bearer_token(req.authorization)
                 payload == validate_body(req).model
             IN  IF access_token.raised
                 THEN RaiseLocal(access_token)
                 ELSE Issue("sign_out", [jwt |-> access_token.value,
                                         scope |-> sign_out_scope(payload)])
       \/ /\ pc = "awaiting"
          /\ \E o \in Outcomes("sign_out") : Finish(o, sign_out_response(o))
    /\ UNCHANGED <<phase, env, app_state, req, client, served>>

\* The inbound request is aborted while the handler awaits the provider:
\* CancelledError unwinds the handler and no response is produced.
cancel ==
    /\ pc = "awaiting"
    /\ response' = Cancelled
    /\ pc' = "unwind"
    /\ UNCHANGED <<phase, env, app_state, req, client, calls, result, served>>

\* Mutant: close() follows the yield without try/finally, so it runs only
\* when the handler returned normally.
release_without_finally ==
    /\ pc = "unwind"
    /\ client' = IF response.status \in {HTTP_200_OK, HTTP_204_NO_CONTENT}
                 THEN close(client) ELSE client
    /\ pc' = "done"
    /\ UNCHANGED <<phase, env, app_state, req, calls, result, response, served>>

\* get_auth_client after its yield: `finally: await auth_client.close()`.
release ==
    /\ pc = "unwind"
    /\ client' = close(client)
    /\ pc' = "done"
    /\ UNCHANGED <<phase, env, app_state, req, calls, result, response, served>>

\* The response leaves and the request's objects are discarded.
respond ==
    /\ pc = "done"
    /\ served' = served + 1
    /\ pc' = "idle"
    /\ req' = NoRequest
    /\ client' = NoClient
    /\ calls' = <<>>
    /\ result' = NoResult
    /\ response' = NoResponse
    /\ UNCHANGED <<phase, env, app_state>>

Next ==
    \/ lifespan
    \/ get_auth_client
    \/ validate_request
    \/ sign_up
    \/ sign_in
    \/ refresh
    \/ me
    \/ sign_out
    \/ cancel
    \/ release
    \/ respond

Spec == Init /\ [][Next]_vars

\* Start-up alone, over every environment.
NextStartup == lifespan

SpecStartup == InitStartup /\ [][NextStartup]_vars

(***************************************************************************)
(* Properties.                                                             *)
(***************************************************************************)
Handled == pc \in {"unwind", "done"}

BearerLetters == <<{"B", "b"}, {"E", "e"}, {"A", "a"}, {"R", "r"}, {"E", "e"}, {"R", "r"}>>

\* h begins with the word bearer, in any letter case, and a space.
HasBearerScheme(h) ==
    /\ Len(h) >= 7
    /\ \A i \in 1..6 : h[i] \in BearerLetters[i]
    /\ h[7] = " "

\* The header is absent, empty, or lacks the "Bearer " scheme.
LacksBearer(a) == IsNone(a) \/ a.v = <<>> \/ ~HasBearerScheme(a.v)

\* The header has the scheme and a token portion that is not only whitespace.
WellFormedBearer(a) ==
    /\ ~LacksBearer(a)
    /\ \E i \in 8..Len(a.v) : a.v[i] \notin Whitespace

\* The sign-out body fits its schema: no body, no scope, or a permitted scope.
SignOutBodyFits(b) == IsNone(b) \/ IsNone(b.v.scope) \/ b.v.scope.v \in Scopes

IsClientError(r) == r.status >= 400 /\ r.status <= 499

\* C1 (as stated): for every Authorization header that is absent, empty or
\* lacks the Bearer scheme, GET /auth/me and POST /auth/sign-out end with 401
\* and no provider operation is invoked.
C1_BadHeaderIs401 ==
    (req.op \in {"me", "sign_out"} /\ LacksBearer(req.authorization)) =>
        /\ calls = <<>>
        /\ pc # "awaiting"
        /\ Handled => response.status = HTTP_401_UNAUTHORIZED

\* C1 (amended): such a request never invokes the provider; it ends with 401
\* when its body fits the schema, and with the 422 validation failure when a
\* sign-out body carries a scope outside global, local, others.
C1_BadHeaderRejectedLocally ==
    (req.op \in {"me", "sign_out"} /\ LacksBearer(req.authorization)) =>
        /\ calls = <<>>
        /\ pc # "awaiting"
        /\ Handled =>
             response.status =
                 IF req.op = "me" \/ SignOutBodyFits(req.body)
                 THEN HTTP_401_UNAUTHORIZED
                 ELSE HTTP_422_UNPROCESSABLE

C1_Witness ==
    /\ pc = "done"
    /\ req.op = "sign_out"
    /\ req.authorization = Some(<<"B", "a", "s", "i", "c", " ", "x">>)
    /\ response.status = HTTP_401_UNAUTHORIZED
    /\ calls = <<>>

\* The request fails a local body validation named by C2.
FailsBodyValidation(r) ==
    \/ r.op = "sign_up" /\ r.body.password.some
          /\ Len(r.body.password.v) < PasswordMinLength
    \/ r.op = "refresh" /\ r.body.refresh_token.some
          /\ r.body.refresh_token.v = <<>>
    \/ r.op = "sign_out" /\ ~SignOutBodyFits(r.body)

\* C2: a sign-up with a password shorter than 8 characters, a refresh with an
\* empty refresh_token and a sign-out with a scope outside global, local,
\* others are rejected with a client error and never reach the provider.
C2_ValidationShortCircuits ==
    FailsBodyValidation(req) =>
        /\ calls = <<>>
        /\ pc \notin {"handler", "awaiting"}
        /\ Handled => IsClientError(response)

C2_Witness ==
    /\ pc = "done"
    /\ req.op = "sign_up"
    /\ req.body.password.some
    /\ Len(req.body.password.v) = PasswordMinLength - 1
    /\ IsClientError(response)
    /\ calls = <<>>

\* C3: the client a request acquires is open while the request runs, is
\* closed exactly once on every exit path (success, local failure, provider
\* failure, cancellation), and every provider operation is issued on the
\* request's own client while it is open.
C3_ClientClosedExactlyOnce ==
    /\ pc \in {"acquired", "handler", "awaiting", "unwind"} =>
          client.state = "open" /\ client.closes = 0
    /\ pc = "done" => client.state = "closed" /\ client.closes = 1
    /\ \A i \in 1..Len(calls) :
          calls[i].client_state = "open" /\ calls[i].client = client.id

C3_Witness ==
    /\ pc = "done"
    /\ response = Cancelled
    /\ Len(calls) = 1
    /\ client.state = "closed"
    /\ client.closes = 1

\* C4: a provider error reaches the client as the mapper's result: an API
\* error with status s and message m as status s, detail m; any other
\* provider error as status 400 with the error's string representation.
C4_ErrorsAreMapped ==
    (Handled /\ result.kind = "raise") =>
        LET e == result.error
        IN  IF e.variant = "AuthApiError"
            THEN response = [status |-> e.status, detail |-> e.message]
            ELSE response = [status |-> HTTP_400_BAD_REQUEST, detail |-> e.str]

C4_Witness ==
    /\ pc = "done"
    /\ req.op = "sign_in"
    /\ result.kind = "raise"
    /\ result.error.variant = "AuthApiError"
    /\ response = [status |-> 400, detail |-> "Invalid login credentials"]

\* C5: get-current-user answers 401 whenever the provider returns no
\* response or a response without a user, so every 200 carries a user.
C5_MeNeverSucceedsWithoutUser ==
    (req.op = "me" /\ Handled) =>
        /\ (result.kind = "return"
              /\ (IsNone(result.value) \/ IsNone(result.value.v.user)))
             => response.status = HTTP_401_UNAUTHORIZED
        /\ response.status = HTTP_200_OK =>
             /\ "body" \in DOMAIN response
             /\ response.body.user.some

C5_Witness ==
    /\ pc = "done"
    /\ req.op = "me"
    /\ result = Return(Some([user |-> None]))
    /\ response.status = HTTP_401_UNAUTHORIZED

\* The environment lacks the base URL, or lacks every candidate key.
UrlMissing(e) == IsNone(e.SUPABASE_URL) \/ e.SUPABASE_URL.v = <<>>

AllKeysMissing(e) ==
    \A i \in 1..Len(SUPABASE_KEY_ENV_NAMES) :
        IsNone(e[SUPABASE_KEY_ENV_NAMES[i]]) \/ e[SUPABASE_KEY_ENV_NAMES[i]].v = <<>>

\* C6: start-up fails when the base URL or every candidate key is absent or
\* empty, and whenever the service serves requests the stored base URL and
\* the stored API key are both non-empty.
C6_NeverPartiallyConfigured ==
    /\ (phase # "starting" /\ (UrlMissing(env) \/ AllKeysMissing(env))) =>
          phase = "failed"
    /\ phase = "serving" =>
          app_state.supabase_url # <<>> /\ app_state.supabase_key # <<>>

\* The scope C7 expects for a sign-out body.
ExpectedScope(b) ==
    IF IsNone(b) \/ IsNone(b.v.scope) THEN "global" ELSE b.v.scope.v

\* C7: sign-out hands the provider the payload's scope when a payload is
\* supplied and global otherwise, always one of global, local, others, with
\* the token of the header; the outcome depends on the provider's answer only,
\* so no body and the body {"scope": "global"} are handled alike.
C7_ScopeHandedToProvider ==
    (req.op = "sign_out" /\ calls # <<>>) =>
        /\ calls[1].op = "sign_out"
        /\ calls[1].args.scope = ExpectedScope(req.body)
        /\ calls[1].args.scope \in Scopes
        /\ calls[1].args.jwt =
              strip(SubSeq(req.authorization.v, 8, Len(req.authorization.v)))
        /\ (Handled /\ result.kind = "return") =>
              response = [status |-> HTTP_204_NO_CONTENT, body |-> None]
        /\ (Handled /\ result.kind = "raise") => response.status >= 400

C7_Witness ==
    /\ pc = "done"
    /\ req.op = "sign_out"
    /\ IsNone(req.body)
    /\ Len(calls) = 1
    /\ calls[1].args = [jwt |-> <<"x">>, scope |-> "global"]
    /\ response.status = HTTP_204_NO_CONTENT

\* C8: normalizing a provider auth response always succeeds and yields the
\* keys user and session; session is null exactly when the provider gave
\* none and otherwise holds exactly the five session fields with the
\* provider's values; user is null exactly when absent and otherwise holds
\* every field of the user record.
C8_NormalizedShape ==
    (req.op \in {"sign_up", "sign_in", "refresh"} /\ Handled
        /\ result.kind = "return") =>
        LET r == result.value
        IN  /\ response.status = HTTP_200_OK
            /\ DOMAIN response.body = {"user", "session"}
            /\ response.body.session.some <=> r.session.some
            /\ response.body.session.some =>
                  /\ DOMAIN response.body.session.v = SessionView
                  /\ \A f \in SessionView :
                        response.body.session.v[f] = r.session.v[f]
            /\ response.body.user.some <=> r.user.some
            /\ response.body.user.some =>
                  /\ DOMAIN response.body.user.v = DOMAIN r.user.v
                  /\ \A f \in DOMAIN r.user.v :
                        r.user.v[f].t # "datetime" =>
                            response.body.user.v[f] = r.user.v[f]

C8_Witness ==
    /\ pc = "done"
    /\ req.op = "sign_up"
    /\ result.kind = "return"
    /\ IsNone(result.value.user)
    /\ result.value.session.some
    /\ IsNone(response.body.user)
    /\ DOMAIN response.body.session.v = SessionView

\* C9: every access token that get-current-user or sign-out passes to the
\* provider is non-empty and has no leading or trailing whitespace, and a
\* header whose token portion is empty after trimming is rejected with 401.
C9_TokenNonEmptyAndTrimmed ==
    /\ \A i \in 1..Len(calls) :
          calls[i].op \in {"get_user", "sign_out"} =>
              LET t == calls[i].args.jwt
              IN  /\ t # <<>>
                  /\ t[1] \notin Whitespace
                  /\ t[Len(t)] \notin Whitespace
    /\ (/\ req.op \in {"me", "sign_out"}
        /\ req.op = "me" \/ SignOutBodyFits(req.body)
        /\ ~WellFormedBearer(req.authorization)) =>
          /\ calls = <<>>
          /\ Handled => response.status = HTTP_401_UNAUTHORIZED

\* The request passes the local validation of its operation.
LocallyValid(r) ==
    CASE r.op = "sign_up" ->
            /\ r.body.email.some
            /\ r.body.password.some
            /\ Len(r.body.password.v) >= PasswordMinLength
      [] r.op = "sign_in" -> r.body.email.some /\ r.body.password.some
      [] r.op = "refresh" ->
            r.body.refresh_token.some /\ r.body.refresh_token.v # <<>>
      [] r.op = "me" -> WellFormedBearer(r.authorization)
      [] r.op = "sign_out" ->
            WellFormedBearer(r.authorization) /\ SignOutBodyFits(r.body)
      [] OTHER -> FALSE

\* C10: a request issues at most one provider operation, exactly one when
\* its local validation passes, and a provider failure ends the request at
\* once with a failure response: nothing is retried.
C10_SingleProviderCall ==
    /\ Len(calls) <= 1
    /\ (Handled /\ LocallyValid(req)) => Len(calls) = 1
    /\ (Handled /\ result.kind = "raise") =>
          /\ response.status >= 400
          /\ "detail" \in DOMAIN response

C10_Witness ==
    /\ pc = "done"
    /\ req.op = "sign_in"
    /\ result.kind = "raise"
    /\ Len(calls) = 1
    /\ response.status >= 400

====
